---- MODULE Spec2Model ----
(***************************************************************************)
(* Ingestion and versioned-upsert pipeline of the World Economic Map       *)
(* backend: upsertIndicatorValues, bulkUpsertHistoricalData, logIngestion, *)
(* runIngestionJob and runAllIngestion, over the indicator_values and      *)
(* ingestion_logs tables.                                                  *)
(*                                                                         *)
(* Strings that the code inspects with regular expressions (country codes, *)
(* effective dates) are sequences of one-character strings.  Values are    *)
(* fixed-point numbers counted in units of 0.00005, so the dedup tolerance *)
(* 0.0001 is 2 units; NaN stands for a non-finite number.                  *)
(***************************************************************************)
EXTENDS Integers, Sequences, FiniteSets, TLC

VARIABLES rows, tx, clock, runs, job, ledger, lastJob, backfillStatus, loops,
          cache, reads, served

\* the state of the admin routes: the backfillStatus object and the position of each
\* runBackfillAsync call
adminVars == <<backfillStatus, loops>>

\* the response cache, the GET requests that await their query, and the response
\* sent last
cacheVars == <<cache, reads, served>>

vars == <<rows, tx, clock, runs, job, ledger, lastJob, backfillStatus, loops,
          cache, reads, served>>

----------------------------------------------------------------------------
(* Bounds of the exploration *)

\* calls of the sequential exploration, and records per call
MaxRuns == 2

\* loader runs and records per run of the exploration of the transaction frame
MaxTxRuns == 2
MaxTxBatch == 2

MaxBatch == 2

\* transactions of the interleaved exploration, and records per transaction
MaxConcRuns == 2

MaxConcBatch == 2

\* job invocations, and records per fetch
MaxJobs == 2

MaxFetch == 2

\* transactions the admin backfill loops open, and records per history fetch
MaxBackfillWrites == 2

MaxBackfillBatch == 2

\* pages the provider reports for a history fetch, and observations per page
MaxPages == 2

MaxPagePoints == 1

\* jobs, GET requests, and records per fetch, of the cached exploration
MaxCacheJobs == 1

MaxReads == 3

MaxCacheBatch == 1

\* jobs that fetch from the World Bank, and observations per response
MaxReduceJobs == 1

MaxPoints == 3

TxIds == {1, 2}

----------------------------------------------------------------------------
(* Characters and the two regular expressions of the validators *)

Digits == <<"0", "1", "2", "3", "4", "5", "6", "7", "8", "9">>

UpperLetters == {"A", "B", "C", "D", "E", "F", "G", "H", "I", "J", "K", "L", "M",
                 "N", "O", "P", "Q", "R", "S", "T", "U", "V", "W", "X", "Y", "Z"}

IsDigit(ch) == \E k \in 1..10 : Digits[k] = ch

DigitVal(ch) == (CHOOSE k \in 1..10 : Digits[k] = ch) - 1

\* /^[A-Z]{2}$/
CountryCodeShape(s) == Len(s) = 2 /\ \A k \in 1..2 : s[k] \in UpperLetters

\* /^\d{4}-\d{2}-\d{2}$/
DateShape(s) ==
    /\ Len(s) = 10
    /\ \A k \in {1, 2, 3, 4, 6, 7, 9, 10} : IsDigit(s[k])
    /\ s[5] = "-"
    /\ s[8] = "-"

NaN == -1

IsFinite(v) == v # NaN

Abs(x) == IF x < 0 THEN -x ELSE x

\* Math.abs(existingValue - record.value) < 0.0001, in units of 0.00005
Tolerance == 2

SameValueNever(a, b) == FALSE

SameValueInclusive(a, b) == a # NaN /\ b # NaN /\ Abs(a - b) <= Tolerance

SameValueExact(a, b) == a # NaN /\ b # NaN /\ a = b

SameValue(a, b) == a # NaN /\ b # NaN /\ Abs(a - b) < Tolerance

Null == <<>>

validateRecordNoDate(record) ==
    IF Len(record.countryCode) = 0 \/ ~CountryCodeShape(record.countryCode)
    THEN <<"Invalid country_code", record.countryCode>>
    ELSE IF ~IsFinite(record.value)
    THEN <<"Invalid value", record.countryCode>>
    ELSE Null

validateRecord(record) ==
    IF Len(record.countryCode) = 0 \/ ~CountryCodeShape(record.countryCode)
    THEN <<"Invalid country_code", record.countryCode>>
    ELSE IF ~IsFinite(record.value)
    THEN <<"Invalid value", record.countryCode>>
    ELSE IF Len(record.effectiveDate) = 0 \/ ~DateShape(record.effectiveDate)
    THEN <<"Invalid effective_date", record.countryCode>>
    ELSE Null

----------------------------------------------------------------------------
(* The store: reference tables and the column type of effective_date *)

US == <<"U", "S">>

DE == <<"D", "E">>

\* rows of the countries table
Countries == {US, DE}

\* ids of the indicators table
IndicatorIds == {"i1", "i2"}

CountryAlwaysExists(c) == TRUE

\* SELECT 1 FROM countries WHERE country_code = $1 returns a row
CountryExists(c) == c \in Countries

\* indicator_values.indicator_id references indicators
IndicatorExists(ind) == ind \in IndicatorIds

DaysInMonth(y, m) ==
    IF m \in {4, 6, 9, 11} THEN 30
    ELSE IF m = 2
    THEN (IF (y % 4 = 0 /\ y % 100 # 0) \/ y % 400 = 0 THEN 29 ELSE 28)
    ELSE 31

\* a parameter bound to the date column must be a calendar date
DateColumnAccepts(s) ==
    /\ DateShape(s)
    /\ LET y == 1000 * DigitVal(s[1]) + 100 * DigitVal(s[2])
                + 10 * DigitVal(s[3]) + DigitVal(s[4])
           m == 10 * DigitVal(s[6]) + DigitVal(s[7])
           d == 10 * DigitVal(s[9]) + DigitVal(s[10])
       IN  y >= 1 /\ m \in 1..12 /\ d >= 1 /\ d <= DaysInMonth(y, m)

NoRow == [id |-> <<0, 0>>, country_code |-> <<>>, indicator_id |-> "",
          effective_date |-> <<>>, value |-> 0, fetched_at |-> 0, data_version |-> 0]

SameCountryAndDate(r, q) ==
    /\ r.country_code = q.country_code
    /\ r.effective_date = q.effective_date

SameKey(r, q) ==
    /\ r.country_code = q.country_code
    /\ r.indicator_id = q.indicator_id
    /\ r.effective_date = q.effective_date

RowsOfAnyCountry(S, c, ind, d) ==
    {r \in S : r.indicator_id = ind /\ r.effective_date = d}

RowsOfKey(S, c, ind, d) ==
    {r \in S : r.country_code = c /\ r.indicator_id = ind /\ r.effective_date = d}

Oldest(S, c, ind, d) ==
    LET K == RowsOfKey(S, c, ind, d)
    IN  IF K = {} THEN NoRow
        ELSE CHOOSE r \in K : \A q \in K : q.data_version >= r.data_version

\* SELECT ... WHERE key ORDER BY data_version DESC LIMIT 1
Latest(S, c, ind, d) ==
    LET K == RowsOfKey(S, c, ind, d)
    IN  IF K = {} THEN NoRow
        ELSE CHOOSE r \in K : \A q \in K : q.data_version <= r.data_version

\* what a statement of transaction t sees: committed rows and its own writes
Visible(t) == rows \cup tx[t].pending

NoUniqueConflict(S, row) == FALSE

\* indicator_values_unique_version
UniqueConflict(S, row) ==
    \E q \in S : SameKey(q, row) /\ q.data_version = row.data_version

NextVersionGap(existingVersion) == existingVersion + 2

NextVersion(existingVersion) == existingVersion + 1

RollbackKeeps(committed, pending) == committed \cup pending

\* ROLLBACK: none of the transaction's writes persist
AfterRollback(committed, pending) == committed

CommitReplaces(committed, pending) ==
    {r \in committed : ~\E p \in pending : SameKey(p, r)} \cup pending

\* COMMIT: the transaction's inserts join the table
AfterCommit(committed, pending) == committed \cup pending

----------------------------------------------------------------------------
(* The queries of the read API *)

\* EXTRACT(YEAR FROM effective_date)
YearOf(d) ==
    1000 * DigitVal(d[1]) + 100 * DigitVal(d[2]) + 10 * DigitVal(d[3]) + DigitVal(d[4])

\* the order of the date column
DateOrdinal(d) ==
    10000 * YearOf(d) + 100 * (10 * DigitVal(d[6]) + DigitVal(d[7]))
        + 10 * DigitVal(d[9]) + DigitVal(d[10])

\* GET /api/indicators/latest: DISTINCT ON (country_code) ... ORDER BY country_code,
\* effective_date DESC, data_version DESC
LatestQuery(S, ind) ==
    {r \in S :
        /\ r.indicator_id = ind
        /\ \A q \in S :
              (q.indicator_id = ind /\ q.country_code = r.country_code)
                  => \/ DateOrdinal(q.effective_date) < DateOrdinal(r.effective_date)
                     \/ /\ q.effective_date = r.effective_date
                        /\ q.data_version <= r.data_version}

\* GET /api/indicators/year: DISTINCT ON (country_code) ... WHERE year ... ORDER BY
\* country_code, data_version DESC; the rows the query may return (rows that tie on
\* data_version come in no defined order)
YearQuery(S, ind, year) ==
    {r \in S :
        /\ r.indicator_id = ind
        /\ YearOf(r.effective_date) = year
        /\ \A q \in S :
              (q.indicator_id = ind /\ q.country_code = r.country_code
                  /\ YearOf(q.effective_date) = year)
                  => q.data_version <= r.data_version}

\* GET /api/history/:country_code: every row of the country and the indicator whose
\* year lies in the range
HistoryQuery(S, c, ind, fromYear, toYear) ==
    {r \in S :
        /\ r.country_code = c
        /\ r.indicator_id = ind
        /\ YearOf(r.effective_date) >= fromYear
        /\ YearOf(r.effective_date) <= toYear}

\* years a request may name
Years == {2019, 2020, 2021}

----------------------------------------------------------------------------
(* Transactions of upsertIndicatorValues and bulkUpsertHistoricalData *)

ZeroResult == [inserted |-> 0, updated |-> 0, skipped |-> 0, errors |-> <<>>]

NoRecord == [countryCode |-> <<>>, value |-> 0, effectiveDate |-> <<>>]

NoDecision == [action |-> "none", record |-> NoRecord, existing |-> NoRow]

IdleTx == [pc |-> "idle", kind |-> "none", caller |-> "none", ind |-> "",
           recs |-> <<>>, i |-> 0, stamp |-> 0, pending |-> {}, planned |-> NoRow,
           res |-> ZeroResult, before |-> {}, last |-> NoDecision, releases |-> 0]

NewRow(t, record, version) ==
    [id |-> <<tx[t].stamp, tx[t].i>>, country_code |-> record.countryCode,
     indicator_id |-> tx[t].ind, effective_date |-> record.effectiveDate,
     value |-> record.value, fetched_at |-> tx[t].stamp, data_version |-> version]

\* position after record i: the next record, or COMMIT after the last one
Advance(t) == IF tx[t].i + 1 > Len(tx[t].recs) THEN "commit" ELSE "read"

\* the statement that ends the transaction: COMMIT on the way out of the try block,
\* ROLLBACK in the catch block; a ROLLBACK that fails has still been issued
EndedBy(outcome, cause) ==
    IF outcome = "return" THEN "COMMIT"
    ELSE IF cause = "rollback" THEN "ROLLBACK attempted"
    ELSE "ROLLBACK"

ReleaseSkipped(releases, ended) == IF ended = "ROLLBACK attempted" THEN releases ELSE releases + 1

\* finally { client.release() }: runs after the try block and after the catch block,
\* also when the catch block itself throws
Release(releases, ended) == releases + 1

Summary(t, outcome, cause, after) ==
    [kind |-> tx[t].kind, caller |-> tx[t].caller, ind |-> tx[t].ind,
     recs |-> tx[t].recs, stamp |-> tx[t].stamp, outcome |-> outcome,
     cause |-> cause, res |-> tx[t].res, before |-> tx[t].before, after |-> after,
     failedAt |-> tx[t].i, pendingAtEnd |-> tx[t].pending,
     ended |-> EndedBy(outcome, cause),
     released |-> Release(tx[t].releases, EndedBy(outcome, cause))]

\* the two most recently finished runs
Remember(history, summary) ==
    IF summary.caller # "direct" THEN history
    ELSE IF Len(history) < 2 THEN Append(history, summary)
    ELSE <<history[2], summary>>

\* a World Bank reply [metadata, data]: response.data[1] is null, or the array of
\* observations
NoData == [recognized |-> TRUE, hasData |-> FALSE, data |-> <<>>]

\* a reply of another shape, such as the one-element array [{message: [...]}] the
\* provider sends for a request it rejects: response.data[1] is undefined
ErrorBody == [recognized |-> FALSE, hasData |-> FALSE, data |-> <<>>]

IdleJob == [pc |-> "idle", kind |-> "none", name |-> "", ind |-> "", idx |-> 0,
            startedAt |-> 0, records |-> <<>>, result |-> ZeroResult, err |-> "",
            fetched |-> "none", upsert |-> "none", logFaults |-> 0,
            response |-> NoData]

NoJob == [IdleJob EXCEPT !.pc = "none"]

\* pool.connect() and BEGIN
Begin(t, kind, caller, ind, recs, fetchedAt) ==
    [IdleTx EXCEPT !.pc = IF Len(recs) = 0 THEN "commit" ELSE "read",
                   !.kind = kind, !.caller = caller, !.ind = ind,
                   !.recs = recs, !.i = 1, !.stamp = fetchedAt,
                   !.before = rows]

\* the awaiting job resumes with the value or the exception of upsertIndicatorValues
Resume(t, outcome, cause) ==
    IF tx[t].caller = "job"
    THEN IF outcome = "return"
         THEN [job EXCEPT !.pc = "log", !.result = tx[t].res, !.upsert = "return"]
         ELSE [job EXCEPT !.pc = "catch", !.err = cause, !.upsert = "throw"]
    ELSE job

\* let backfillStatus = { running: false, ..., completed: [], failed: [], total: 0 }
InitialStatus ==
    [running |-> FALSE, current |-> Null, completed |-> <<>>, failed |-> <<>>, total |-> 0]

\* currentPage, totalPages and allRecords belong to the history fetch the loop
\* awaits; requested and received list the pages it asked for and the bodies it got
IdleLoop == [pc |-> "idle", idx |-> 0, currentPage |-> 1, totalPages |-> 1,
             allRecords |-> <<>>, requested |-> <<>>, received |-> <<>>]

\* the indicators a backfill request names
BackfillIndicators ==
    <<[type |-> "interest", id |-> "i1"], [type |-> "inflation", id |-> "i2"]>>

\* runBackfillAsync resumes with the value or the exception of
\* backfillIndicatorHistory, records it and starts the wait between indicators
ResumeLoop(t, outcome, cause) ==
    IF tx[t].caller = "admin"
    THEN /\ loops' = [loops EXCEPT ![t].pc = "wait"]
         /\ backfillStatus' =
               IF outcome = "return"
               THEN [backfillStatus EXCEPT
                        !.completed = Append(@, BackfillIndicators[loops[t].idx].type)]
               ELSE [backfillStatus EXCEPT
                        !.failed = Append(@, [type |-> BackfillIndicators[loops[t].idx].type,
                                              error |-> cause])]
    ELSE UNCHANGED adminVars

\* catch (err) { ROLLBACK; throw err } finally { client.release() }
Fail(t, cause) ==
    /\ rows' = AfterRollback(rows, tx[t].pending)
    /\ runs' = Remember(runs, Summary(t, "throw", cause, rows'))
    /\ tx' = [tx EXCEPT ![t] = [IdleTx EXCEPT !.last = [NoDecision EXCEPT !.action = cause]]]
    /\ job' = Resume(t, "throw", cause)
    /\ ResumeLoop(t, "throw", cause)
    /\ UNCHANGED <<clock, ledger, lastJob, cacheVars>>

\* the record at position i has been dealt with without a write
Pass(t, res, action, existing) ==
    /\ tx' = [tx EXCEPT ![t].res = res, ![t].pc = Advance(t), ![t].i = @ + 1,
                        ![t].last = [action |-> action, record |-> tx[t].recs[tx[t].i],
                                     existing |-> existing]]
    /\ UNCHANGED <<rows, clock, runs, job, ledger, lastJob, adminVars, cacheVars>>

\* the record needs an INSERT, issued by the next statement
Plan(t, row, action, existing) ==
    /\ tx' = [tx EXCEPT ![t].planned = row, ![t].pc = "write",
                        ![t].last = [action |-> action, record |-> tx[t].recs[tx[t].i],
                                     existing |-> existing]]
    /\ UNCHANGED <<rows, clock, runs, job, ledger, lastJob, adminVars, cacheVars>>

\* batchSize = 500, scaled to the batch lengths explored here
batchSize == 1

\* Math.floor(i / batchSize) + 1 for the record at position n = i + 1
BatchOf(n) == ((n - 1) \div batchSize) + 1

BackfillAddsVersion(existingValue, value) == "update"

BackfillOverwrites(existingValue, value) ==
    IF SameValue(existingValue, value) THEN "skip" ELSE "update"

\* bulkUpsertHistoricalData, an existing row: same value or not, the candidate is skipped
BackfillConflictPolicy(existingValue, value) ==
    IF SameValue(existingValue, value) THEN "skip" ELSE "skip"

\* one iteration of the record loop of upsertIndicatorValues, up to its INSERT
UpsertRead(t) ==
    LET record == tx[t].recs[tx[t].i]
        res == tx[t].res
        validationError == validateRecord(record)
        existing == Latest(Visible(t), record.countryCode, tx[t].ind, record.effectiveDate)
    IN  IF validationError # Null
        THEN Pass(t, [res EXCEPT !.errors = Append(@, validationError)], "invalid", NoRow)
        ELSE IF ~CountryExists(record.countryCode)
        THEN Pass(t, [res EXCEPT !.skipped = @ + 1], "skip_country", NoRow)
        ELSE IF ~DateColumnAccepts(record.effectiveDate)
        THEN Fail(t, "date")
        ELSE IF existing # NoRow
        THEN IF SameValue(existing.value, record.value)
             THEN Pass(t, [res EXCEPT !.skipped = @ + 1], "skip_same", existing)
             ELSE Plan(t, NewRow(t, record, NextVersion(existing.data_version)),
                       "plan_update", existing)
        ELSE Plan(t, NewRow(t, record, 1), "plan_insert", NoRow)

\* one iteration of the record loop of bulkUpsertHistoricalData, up to its INSERT
BackfillRead(t) ==
    LET record == tx[t].recs[tx[t].i]
        res == tx[t].res
        existing == Latest(Visible(t), record.countryCode, tx[t].ind, record.effectiveDate)
    IN  IF ~CountryCodeShape(record.countryCode)
        THEN Pass(t, [res EXCEPT !.skipped = @ + 1], "skip_shape", NoRow)
        ELSE IF ~CountryExists(record.countryCode)
        THEN Pass(t, [res EXCEPT !.skipped = @ + 1], "skip_country", NoRow)
        ELSE IF ~DateColumnAccepts(record.effectiveDate)
        THEN Fail(t, "date")
        ELSE IF existing # NoRow
        THEN IF BackfillConflictPolicy(existing.value, record.value) = "skip"
             THEN Pass(t, [res EXCEPT !.skipped = @ + 1], "skip_existing", existing)
             ELSE Plan(t, NewRow(t, record, NextVersion(existing.data_version)),
                       "plan_update", existing)
        ELSE Plan(t, NewRow(t, record, 1), "plan_insert", NoRow)

ReadStep(t) ==
    /\ tx[t].pc = "read"
    /\ IF tx[t].kind = "upsert" THEN UpsertRead(t) ELSE BackfillRead(t)

\* the INSERT waits while another open transaction holds the same unique key
Blocked(t) ==
    \E u \in TxIds \ {t} : UniqueConflict(tx[u].pending, tx[t].planned)

CountNothing(res, action) == res

\* result.updated++ after the INSERT of a new version, result.inserted++ after the
\* INSERT of a first version
CountWrite(res, action) ==
    IF action = "plan_update"
    THEN [res EXCEPT !.updated = @ + 1]
    ELSE [res EXCEPT !.inserted = @ + 1]

Written(t, row, action) ==
    /\ tx' = [tx EXCEPT ![t].pending = @ \cup row,
                        ![t].planned = NoRow,
                        ![t].pc = Advance(t), ![t].i = @ + 1,
                        ![t].res = CountWrite(@, tx[t].last.action),
                        ![t].last = [@ EXCEPT !.action = action]]
    /\ UNCHANGED <<rows, clock, runs, job, ledger, lastJob, adminVars, cacheVars>>

\* the INSERT statement of the current record
WriteStep(t) ==
    /\ tx[t].pc = "write"
    /\ ~Blocked(t)
    /\ IF ~IndicatorExists(tx[t].ind)
       THEN Fail(t, "foreign_key")
       ELSE IF UniqueConflict(Visible(t), tx[t].planned)
       THEN IF tx[t].kind = "backfill"
            THEN Written(t, {}, "conflict_nothing")
            ELSE Fail(t, "unique")
       ELSE Written(t, {tx[t].planned},
                    IF tx[t].last.action = "plan_update" THEN "updated" ELSE "inserted")

\* two transactions wait for each other's key: the store aborts one of them
DeadlockStep(t) ==
    /\ tx[t].pc = "write"
    /\ \E u \in TxIds \ {t} :
          /\ tx[u].pc = "write"
          /\ UniqueConflict(tx[u].pending, tx[t].planned)
          /\ UniqueConflict(tx[t].pending, tx[u].planned)
    /\ Fail(t, "deadlock")

\* COMMIT, then return result
CommitStep(t) ==
    /\ tx[t].pc = "commit"
    /\ rows' = AfterCommit(rows, tx[t].pending)
    /\ runs' = Remember(runs, Summary(t, "return", "", rows'))
    /\ tx' = [tx EXCEPT ![t] = IdleTx]
    /\ job' = Resume(t, "return", "")
    /\ ResumeLoop(t, "return", "")
    /\ UNCHANGED <<clock, ledger, lastJob, cacheVars>>

\* the statement the transaction is about to issue
AtStatement(t) ==
    \/ tx[t].pc \in {"write", "commit"}
    \/ /\ tx[t].pc = "read"
       /\ IF tx[t].kind = "upsert"
          THEN validateRecord(tx[t].recs[tx[t].i]) = Null
          ELSE CountryCodeShape(tx[t].recs[tx[t].i].countryCode)

\* an unexpected storage error on the current statement
StorageFault(t) ==
    /\ AtStatement(t)
    /\ Fail(t, "storage")

\* a statement fails and the ROLLBACK of the catch block fails after it, as on a lost
\* connection: the server discards the open transaction, the caller sees the error
\* of the ROLLBACK
RollbackFault(t) ==
    /\ AtStatement(t)
    /\ Fail(t, "rollback")

----------------------------------------------------------------------------
(* Direct calls, one at a time *)

Rec(c, v, d) == [countryCode |-> c, value |-> v, effectiveDate |-> d]

Date2020 == <<"2", "0", "2", "0", "-", "1", "2", "-", "3", "1">>

Batches(pool, maxLen) == UNION {[1..n -> pool] : n \in 0..maxLen}

\* candidates of the sequential exploration: one key with values 0, 1 and 3 units
\* (differences below, at and past the tolerance)
SeqPool == {Rec(US, 0, Date2020), Rec(US, 1, Date2020), Rec(US, 3, Date2020)}

\* candidates of the sequential backfills: the same key and a second key
BackfillPool == {Rec(US, 0, Date2020), Rec(US, 3, Date2020), Rec(DE, 0, Date2020)}

ZZ == <<"Z", "Z">>

\* an id that no row of the indicators table carries
UnknownIndicator == "i9"

\* candidates of the referential exploration: a registered country with two values,
\* a well-formed code that the countries table does not hold, and a value that is
\* not a number
RefPool == {Rec(US, 0, Date2020), Rec(US, 3, Date2020), Rec(ZZ, 3, Date2020),
            Rec(US, NaN, Date2020)}

NoneOpen == \A u \in TxIds : tx[u].pc = "idle"

CallUpsert(t, caller, ind, recs, maxCalls) ==
    /\ tx[t].pc = "idle"
    /\ job.pc = "idle"
    /\ clock < maxCalls
    /\ clock' = clock + 1
    /\ tx' = [tx EXCEPT ![t] = Begin(t, "upsert", caller, ind, recs, clock + 1)]
    /\ UNCHANGED <<rows, runs, job, ledger, lastJob, adminVars, cacheVars>>

CallBackfill(t, caller, ind, recs, maxCalls) ==
    /\ tx[t].pc = "idle"
    /\ job.pc = "idle"
    /\ clock < maxCalls
    /\ clock' = clock + 1
    /\ tx' = [tx EXCEPT ![t] = Begin(t, "backfill", caller, ind, recs, clock + 1)]
    /\ UNCHANGED <<rows, runs, job, ledger, lastJob, adminVars, cacheVars>>

----------------------------------------------------------------------------
(* ResponseCache and the routes that read through it *)

\* A key is the sequence of the segments its string has between colons. None of the
\* segments the routes build (route words, indicator types, years) has 'indicators'
\* or 'meta' as a proper part, so key.includes(pattern) is: some segment is pattern.
Includes(key, pattern) == \E k \in 1..Len(key) : key[k] = pattern

\* `indicators:latest:${indicatorType}`
LatestKey(type) == <<"indicators", "latest", type>>

\* 'meta:last-updated'
MetaKey == <<"meta", "last-updated">>

\* 'compare:countries:list'
CompareKey == <<"compare", "countries", "list">>

\* an entry holds the data; storedAt and committed record when it was set: the start
\* time of the latest job, and whether no upsert of a job was then still to commit
NoEntry == [data |-> {}, storedAt |-> 0, committed |-> FALSE]

EmptyCache == [k \in {} |-> NoEntry]

\* the upsert of the job in progress, if any, has committed
UpsertCommitted == job.pc = "idle" \/ job.upsert = "return"

\* set(key, data, type): the entry of the key is replaced
Set(c, key, data) ==
    [k \in DOMAIN c \cup {key} |->
        IF k = key
        THEN [data |-> data, storedAt |-> clock, committed |-> UpsertCommitted]
        ELSE c[k]]

\* invalidate(pattern): every key that includes the pattern is deleted
invalidate(c, pattern) ==
    [k \in {key \in DOMAIN c : ~Includes(key, pattern)} |-> c[k]]

invalidateMetaOnly(c) == invalidate(c, "meta")

\* invalidateIndicators(): invalidate('indicators'); invalidate('meta')
invalidateIndicators(c) == invalidate(invalidate(c, "indicators"), "meta")

\* the indicator id the JOIN of a read finds for an indicator type
TypeId(type) ==
    LET k == CHOOSE k \in 1..Len(BackfillIndicators) : BackfillIndicators[k].type = type
    IN  BackfillIndicators[k].id

ReadIds == {1, 2}

IdleRead == [pc |-> "idle", key |-> <<>>, data |-> {}]

NoResponse == [n |-> 0, key |-> <<>>, data |-> {}, from |-> "none"]

InFlight == {r \in ReadIds : reads[r].pc # "idle"}

\* a GET handler up to its first await: a cached entry is sent at once, otherwise
\* the query is issued and answered from the committed rows
Handle(r, key, result) ==
    /\ reads[r].pc = "idle"
    /\ served.n + Cardinality(InFlight) < MaxReads
    /\ IF key \in DOMAIN cache
       THEN /\ served' = [n |-> served.n + 1, key |-> key, data |-> cache[key].data,
                          from |-> "cache"]
            /\ reads' = reads
       ELSE /\ reads' = [reads EXCEPT ![r] = [pc |-> "queried", key |-> key,
                                              data |-> result]]
            /\ served' = served
    /\ UNCHANGED <<rows, tx, clock, runs, job, ledger, lastJob, adminVars, cache>>

\* GET /api/indicators/latest?type=...
GetLatest(r, type) == Handle(r, LatestKey(type), LatestQuery(rows, TypeId(type)))

\* GET /api/meta/last-updated: the successful ledger rows and the count of values
GetLastUpdated(r) ==
    Handle(r, MetaKey, {<<{n \in 1..Len(ledger) : ledger[n].status = "success"},
                          Cardinality(rows)>>})

\* GET /api/compare/countries: the countries that have values
GetCompareCountries(r) == Handle(r, CompareKey, {row.country_code : row \in rows})

\* the handler resumes with the result of its query: responseCache.set(cacheKey,
\* values, ...) and reply.send(values)
Respond(r) ==
    /\ reads[r].pc = "queried"
    /\ cache' = Set(cache, reads[r].key, reads[r].data)
    /\ served' = [n |-> served.n + 1, key |-> reads[r].key, data |-> reads[r].data,
                  from |-> "database"]
    /\ reads' = [reads EXCEPT ![r] = IdleRead]
    /\ UNCHANGED <<rows, tx, clock, runs, job, ledger, lastJob, adminVars>>

\* the TTL of an entry runs out, or the LRU bound evicts it
Expire(key) ==
    /\ key \in DOMAIN cache
    /\ cache' = [k \in DOMAIN cache \ {key} |-> cache[k]]
    /\ UNCHANGED <<rows, tx, clock, runs, job, ledger, lastJob, adminVars, reads, served>>

----------------------------------------------------------------------------
(* Ingestion jobs and the ledger *)

Min(a, b) == IF a < b THEN a ELSE b

\* err.message of the exception a job catches
ErrMsg(err) == <<err, <<>>>>

\* the jobs array of runAllIngestion
JobList == <<[name |-> "exchange", id |-> "i1"], [name |-> "interest", id |-> "i1"]>>

\* result.errors.length > 0 ? 'partial' : 'success'
StatusOf(result) == IF Len(result.errors) > 0 THEN "partial" ELSE "success"

\* result.errors.length > 0 ? result.errors.slice(0, 5).join('; ') : undefined
ErrorSummary(result) ==
    IF Len(result.errors) > 0
    THEN SubSeq(result.errors, 1, Min(5, Len(result.errors)))
    ELSE Null

\* the INSERT of logIngestion
LedgerRow(jobName, status, startedAt, result, errorMessage) ==
    [job_name |-> jobName, status |-> status, started_at |-> startedAt,
     items_inserted |-> result.inserted, items_updated |-> result.updated,
     error_message |-> errorMessage]

\* the counts runIngestionJob hands to logIngestion in its catch block
SchedulerFailureCounts(result) == result

\* the counts runAllIngestion hands to logIngestion in its catch block
RunAllFailureCounts(result) == ZeroResult

NewInvocation(kind, idx, name, ind) ==
    [IdleJob EXCEPT !.pc = "fetch", !.kind = kind, !.idx = idx, !.name = name,
                    !.ind = ind, !.startedAt = clock + 1]

\* cron fires runIngestionJob(jobName, indicatorId, fetchFn)
StartScheduled(name, ind) ==
    /\ job.pc = "idle"
    /\ NoneOpen
    /\ clock < MaxJobs
    /\ clock' = clock + 1
    /\ job' = NewInvocation("scheduler", 0, name, ind)
    /\ UNCHANGED <<rows, tx, runs, ledger, lastJob, adminVars, cacheVars>>

\* runAllIngestion enters its loop with the first job of the list
StartRunAll ==
    /\ job.pc = "idle"
    /\ NoneOpen
    /\ clock + Len(JobList) <= MaxJobs
    /\ clock' = clock + 1
    /\ job' = NewInvocation("runAll", 1, JobList[1].name, JobList[1].id)
    /\ UNCHANGED <<rows, tx, runs, ledger, lastJob, adminVars, cacheVars>>

\* fetchFn() resolves; upsertIndicatorValues connects and begins
FetchReturn(recs) ==
    /\ job.pc = "fetch"
    /\ job' = [job EXCEPT !.pc = "upsert", !.records = recs, !.fetched = "return"]
    /\ tx' = [tx EXCEPT ![1] = Begin(1, "upsert", "job", job.ind, recs, job.startedAt)]
    /\ UNCHANGED <<rows, clock, runs, ledger, lastJob, adminVars, cacheVars>>

\* fetchFn() rejects
FetchThrow ==
    /\ job.pc = "fetch"
    /\ job' = [job EXCEPT !.pc = "catch", !.err = "fetch", !.fetched = "throw"]
    /\ UNCHANGED <<rows, tx, clock, runs, ledger, lastJob, adminVars, cacheVars>>

\* the invocation is over: the scheduler's job returns, the loop of runAllIngestion
\* goes on to its next job, an exception that escapes ends the loop
EndInvocation(escaped) ==
    /\ lastJob' = [job EXCEPT !.pc = IF escaped THEN "escaped" ELSE "returned"]
    /\ IF job.kind = "runAll" /\ ~escaped /\ job.idx < Len(JobList)
       THEN /\ clock' = clock + 1
            /\ job' = NewInvocation("runAll", job.idx + 1, JobList[job.idx + 1].name,
                                    JobList[job.idx + 1].id)
       ELSE /\ clock' = clock
            /\ job' = IdleJob

\* try block after the upsert: logIngestion(jobName, status, startedAt, result, summary);
\* runIngestionJob then calls responseCache.invalidateIndicators()
LogResult ==
    /\ job.pc = "log"
    /\ ledger' = Append(ledger, LedgerRow(job.name, StatusOf(job.result), job.startedAt,
                                          job.result, ErrorSummary(job.result)))
    /\ EndInvocation(FALSE)
    /\ cache' = IF job.kind = "scheduler" THEN invalidateIndicators(cache) ELSE cache
    /\ UNCHANGED <<rows, tx, runs, adminVars, reads, served>>

\* the ledger INSERT of the try block fails: control passes to the catch block
LogResultFault ==
    /\ job.pc = "log"
    /\ job' = [job EXCEPT !.pc = "catch", !.err = "ledger", !.logFaults = @ + 1]
    /\ UNCHANGED <<rows, tx, clock, runs, ledger, lastJob, adminVars, cacheVars>>

\* catch block: logIngestion(jobName, 'failure', startedAt, counts, errorMessage)
CatchLog ==
    /\ job.pc = "catch"
    /\ ledger' = Append(ledger,
                        LedgerRow(job.name, "failure", job.startedAt,
                                  IF job.kind = "scheduler"
                                  THEN SchedulerFailureCounts(job.result)
                                  ELSE RunAllFailureCounts(job.result),
                                  <<ErrMsg(job.err)>>))
    /\ EndInvocation(FALSE)
    /\ UNCHANGED <<rows, tx, runs, adminVars, cacheVars>>

\* the ledger INSERT of the catch block fails: the exception leaves the job
CatchLogFault ==
    /\ job.pc = "catch"
    /\ ledger' = ledger
    /\ EndInvocation(TRUE)
    /\ UNCHANGED <<rows, tx, runs, adminVars, cacheVars>>

----------------------------------------------------------------------------
(* fetchWorldBankIndicator: the latest observation of every country *)

\* the length of the run of digits at the head of s, counted from position n
RECURSIVE DigitPrefix(_, _)
DigitPrefix(s, n) ==
    IF n <= Len(s) /\ IsDigit(s[n]) THEN DigitPrefix(s, n + 1) ELSE n - 1

RECURSIVE Decimal(_, _)
Decimal(s, n) == IF n = 0 THEN 0 ELSE 10 * Decimal(s, n - 1) + DigitVal(s[n])

\* parseInt(point.date, 10) of a string without sign or leading blank: the number
\* its leading digits spell, NaN when it has none
ParseInt(s) ==
    LET k == DigitPrefix(s, 1) IN IF k = 0 THEN NaN ELSE Decimal(s, k)

RECURSIVE NumberToString(_)
NumberToString(n) ==
    IF n < 10 THEN <<Digits[n + 1]>>
    ELSE Append(NumberToString(n \div 10), Digits[(n % 10) + 1])

\* `${year}-12-31`
EndOfYear(year) == NumberToString(year) \o <<"-", "1", "2", "-", "3", "1">>

\* the code unit of a character of a formatted date
CharCode(ch) == IF ch = "-" THEN 45 ELSE 48 + DigitVal(ch)

\* a < b on strings: the first code unit that differs decides, a proper prefix is less
RECURSIVE StrLess(_, _)
StrLess(a, b) ==
    IF Len(b) = 0 THEN FALSE
    ELSE IF Len(a) = 0 THEN TRUE
    ELSE IF CharCode(a[1]) # CharCode(b[1]) THEN CharCode(a[1]) < CharCode(b[1])
    ELSE StrLess(Tail(a), Tail(b))

\* the ISO3 to ISO2 map built from the country list of the provider
iso3Map == [c \in {"USA", "DEU"} |-> IF c = "USA" THEN US ELSE DE]

SupersedesAlways(existingDate, effectiveDate) == TRUE

\* existing.effectiveDate < effectiveDate
Supersedes(existingDate, effectiveDate) == StrLess(existingDate, effectiveDate)

\* the position of the entry of countryBest for a country, 0 when it has none
BestOf(countryBest, iso2) ==
    IF \E k \in 1..Len(countryBest) : countryBest[k].countryCode = iso2
    THEN CHOOSE k \in 1..Len(countryBest) : countryBest[k].countryCode = iso2
    ELSE 0

\* the loop over the observations from position n on; countryBest keeps its entries
\* in the order in which their countries were first set
RECURSIVE ReduceLatest(_, _, _)
ReduceLatest(data, n, countryBest) ==
    IF n > Len(data) THEN countryBest
    ELSE LET point == data[n]
             year == ParseInt(point.date)
         IN  IF point.value = <<>> THEN ReduceLatest(data, n + 1, countryBest)
             ELSE IF point.countryiso3code \notin DOMAIN iso3Map
             THEN ReduceLatest(data, n + 1, countryBest)
             ELSE IF year = NaN THEN ReduceLatest(data, n + 1, countryBest)
             ELSE LET iso2 == iso3Map[point.countryiso3code]
                      effectiveDate == EndOfYear(year)
                      k == BestOf(countryBest, iso2)
                      record == Rec(iso2, point.value[1], effectiveDate)
                  IN  IF k = 0
                      THEN ReduceLatest(data, n + 1, Append(countryBest, record))
                      ELSE IF Supersedes(countryBest[k].effectiveDate, effectiveDate)
                      THEN ReduceLatest(data, n + 1, [countryBest EXCEPT ![k] = record])
                      ELSE ReduceLatest(data, n + 1, countryBest)

fetchWorldBankIndicator(response) ==
    IF ~response.hasData THEN <<>> ELSE ReduceLatest(response.data, 1, <<>>)

\* an observation: value is <<>> for null and <<v>> for the number v
Point(iso3, date, value) == [countryiso3code |-> iso3, date |-> date, value |-> value]

\* observations of one country for three years, one of them null, one with a date
\* that spells no year, an aggregate that has no ISO2 code, and a second country
PointPool ==
    {Point("USA", <<"2", "0", "1", "9">>, <<0>>),
     Point("USA", <<"2", "0", "2", "0">>, <<3>>),
     Point("USA", <<"2", "0", "2", "1">>, <<>>),
     Point("USA", <<>>, <<1>>),
     Point("WLD", <<"2", "0", "2", "1">>, <<0>>),
     Point("DEU", <<"2", "0", "2", "0", "Q", "1">>, <<0>>)}

Responses ==
    {NoData, ErrorBody}
        \cup {[recognized |-> TRUE, hasData |-> TRUE, data |-> d] :
                 d \in Batches(PointPool, MaxPoints)}

\* fetchFn() of a World Bank job resolves; upsertIndicatorValues connects and begins
FetchWorldBank(response) ==
    /\ job.pc = "fetch"
    /\ job.startedAt <= MaxReduceJobs
    /\ LET recs == fetchWorldBankIndicator(response)
       IN  /\ job' = [job EXCEPT !.pc = "upsert", !.records = recs,
                                 !.fetched = "return", !.response = response]
           /\ tx' = [tx EXCEPT ![1] = Begin(1, "upsert", "job", job.ind, recs,
                                            job.startedAt)]
    /\ UNCHANGED <<rows, clock, runs, ledger, lastJob, adminVars, cacheVars>>

USA == <<"U", "S", "A">>

ShortDate == <<"2", "0", "2", "0">>

\* what a fetch may deliver: a valid record, and records that are invalid by
\* country code, by value and by date shape
JobPool == {Rec(US, 0, Date2020), Rec(USA, 0, Date2020),
            Rec(US, NaN, Date2020), Rec(US, 0, ShortDate)}

\* candidates of the interleaved exploration: two keys, two values
ConcPool == {Rec(US, 0, Date2020), Rec(US, 3, Date2020), Rec(DE, 0, Date2020)}

----------------------------------------------------------------------------
(* The admin routes: runBackfillAsync and its cancellation *)

\* what a history fetch may deliver: one observation for each of two countries
HistoryPool == {Rec(US, 0, Date2020), Rec(DE, 0, Date2020)}

\* the head of an iteration of the loop of runBackfillAsync, or what follows the loop
\* when the list is exhausted or the running flag is down
Iterate(l, status, idx) ==
    IF idx <= Len(BackfillIndicators) /\ status.running
    THEN /\ backfillStatus' = [status EXCEPT !.current = BackfillIndicators[idx].type]
         /\ loops' = [loops EXCEPT ![l] = [IdleLoop EXCEPT !.pc = "fetch", !.idx = idx]]
    ELSE /\ backfillStatus' = [status EXCEPT !.running = FALSE, !.current = Null]
         /\ loops' = [loops EXCEPT ![l] = IdleLoop]

\* POST /api/admin/backfill while no backfill is flagged as running: runBackfillAsync
\* resets the status and runs up to the fetch of its first indicator
PostBackfill(l) ==
    /\ ~backfillStatus.running
    /\ loops[l].pc = "idle"
    /\ tx[l].pc = "idle"
    /\ job.pc = "idle"
    /\ clock < MaxBackfillWrites
    /\ Iterate(l, [InitialStatus EXCEPT !.running = TRUE,
                                        !.total = Len(BackfillIndicators)], 1)
    /\ UNCHANGED <<rows, tx, clock, runs, job, ledger, lastJob, cacheVars>>

\* POST /api/admin/backfill/cancel while a backfill is flagged as running
CancelBackfill ==
    /\ backfillStatus.running
    /\ backfillStatus' = [backfillStatus EXCEPT !.running = FALSE]
    /\ UNCHANGED <<rows, tx, clock, runs, job, ledger, lastJob, loops, cacheVars>>

\* fetchWorldBankIndicatorHistory returns; bulkUpsertHistoricalData connects and begins
LoopFetchReturn(l, recs) ==
    /\ loops[l].pc = "fetch"
    /\ clock < MaxBackfillWrites
    /\ clock' = clock + 1
    /\ loops' = [loops EXCEPT ![l].pc = "write"]
    /\ tx' = [tx EXCEPT ![l] = Begin(l, "backfill", "admin",
                                     BackfillIndicators[loops[l].idx].id, recs, clock + 1)]
    /\ UNCHANGED <<rows, runs, job, ledger, lastJob, backfillStatus, cacheVars>>

\* fetchWorldBankIndicatorHistory throws: the indicator is recorded as failed
LoopFetchThrow(l) ==
    /\ loops[l].pc = "fetch"
    /\ loops' = [loops EXCEPT ![l].pc = "wait"]
    /\ backfillStatus' =
          [backfillStatus EXCEPT
              !.failed = Append(@, [type |-> BackfillIndicators[loops[l].idx].type,
                                    error |-> "fetch"])]
    /\ UNCHANGED <<rows, tx, clock, runs, job, ledger, lastJob, cacheVars>>

\* the loop over the observations of a page from position n on: an observation with
\* a value, a mapped country and a date that spells a year adds a candidate
RECURSIVE CollectPage(_, _, _)
CollectPage(data, n, allRecords) ==
    IF n > Len(data) THEN allRecords
    ELSE LET point == data[n]
             year == ParseInt(point.date)
         IN  IF point.value = <<>> THEN CollectPage(data, n + 1, allRecords)
             ELSE IF point.countryiso3code \notin DOMAIN iso3Map
             THEN CollectPage(data, n + 1, allRecords)
             ELSE IF year = NaN THEN CollectPage(data, n + 1, allRecords)
             ELSE CollectPage(data, n + 1,
                              Append(allRecords,
                                     Rec(iso3Map[point.countryiso3code], point.value[1],
                                         EndOfYear(year))))

MorePagesStrict(currentPage, totalPages) == currentPage < totalPages

\* while (currentPage <= totalPages)
MorePages(currentPage, totalPages) == currentPage <= totalPages

\* observations a page of history may carry: two years of one country, one of them
\* without a value, and an aggregate that has no ISO2 code
PagePool ==
    {Point("USA", <<"2", "0", "1", "9">>, <<0>>),
     Point("USA", <<"2", "0", "2", "0">>, <<>>),
     Point("WLD", <<"2", "0", "2", "0">>, <<0>>)}

\* the bodies of a page: [meta, null] or [meta, data]
PageBodies ==
    {NoData} \cup {[recognized |-> TRUE, hasData |-> TRUE, data |-> d] :
                     d \in Batches(PagePool, MaxPagePoints)}

\* one pass of the do-while loop of fetchWorldBankIndicatorHistory: the request of
\* currentPage is answered with meta.pages = pages and a body. The provider reports
\* one page count for all pages of a fetch. After the last page the fetch returns
\* and bulkUpsertHistoricalData connects and begins.
PageReturn(l, pages, body) ==
    /\ loops[l].pc = "fetch"
    /\ loops[l].currentPage = 1 \/ pages = loops[l].totalPages
    /\ LET allRecords == IF body.hasData
                         THEN CollectPage(body.data, 1, loops[l].allRecords)
                         ELSE loops[l].allRecords
           fetching == [loops[l] EXCEPT
                           !.totalPages = pages,
                           !.allRecords = allRecords,
                           !.currentPage = @ + 1,
                           !.requested = Append(@, loops[l].currentPage),
                           !.received = Append(@, body)]
       IN  IF MorePages(fetching.currentPage, fetching.totalPages)
           THEN /\ loops' = [loops EXCEPT ![l] = fetching]
                /\ UNCHANGED <<tx, clock>>
           ELSE /\ clock < MaxBackfillWrites
                /\ clock' = clock + 1
                /\ loops' = [loops EXCEPT ![l] = [fetching EXCEPT !.pc = "write"]]
                /\ tx' = [tx EXCEPT ![l] = Begin(l, "backfill", "admin",
                                                 BackfillIndicators[loops[l].idx].id,
                                                 allRecords, clock + 1)]
    /\ UNCHANGED <<rows, runs, job, ledger, lastJob, backfillStatus, cacheVars>>

\* the request of currentPage fails: the catch block rethrows, backfillIndicatorHistory
\* rethrows, and the loop records the indicator as failed
PageThrow(l) ==
    /\ loops[l].pc = "fetch"
    /\ loops' = [loops EXCEPT ![l].pc = "wait",
                              ![l].requested = Append(@, loops[l].currentPage)]
    /\ backfillStatus' =
          [backfillStatus EXCEPT
              !.failed = Append(@, [type |-> BackfillIndicators[loops[l].idx].type,
                                    error |-> "fetch"])]
    /\ UNCHANGED <<rows, tx, clock, runs, job, ledger, lastJob, cacheVars>>

\* the wait between indicators is over: the next iteration, or the end of the loop
LoopWake(l) ==
    /\ loops[l].pc = "wait"
    /\ Iterate(l, backfillStatus, loops[l].idx + 1)
    /\ UNCHANGED <<rows, tx, clock, runs, job, ledger, lastJob, cacheVars>>

----------------------------------------------------------------------------
(* Specifications *)

Init ==
    /\ rows = {}
    /\ tx = [t \in TxIds |-> IdleTx]
    /\ clock = 0
    /\ runs = <<>>
    /\ job = IdleJob
    /\ ledger = <<>>
    /\ lastJob = NoJob
    /\ backfillStatus = InitialStatus
    /\ loops = [l \in TxIds |-> IdleLoop]
    /\ cache = EmptyCache
    /\ reads = [r \in ReadIds |-> IdleRead]
    /\ served = NoResponse

\* upsert and backfill runs executed one at a time
Next ==
    \/ \E recs \in Batches(SeqPool, MaxBatch) : NoneOpen /\ CallUpsert(1, "direct", "i1", recs, MaxRuns)
    \/ \E recs \in Batches(BackfillPool, MaxBatch) : NoneOpen /\ CallBackfill(1, "direct", "i1", recs, MaxRuns)
    \/ \E t \in TxIds : ReadStep(t)
    \/ \E t \in TxIds : WriteStep(t)
    \/ \E t \in TxIds : CommitStep(t)
    \/ \E t \in TxIds : StorageFault(t)

Spec == Init /\ [][Next]_vars

\* two transactions at a time, their statements interleaved
\* candidates of the exploration of the transaction frame
TxPool == {Rec(US, 0, Date2020), Rec(US, 3, Date2020)}

\* sequential loader runs in which a statement and the ROLLBACK after it may fail
NextTx ==
    \/ \E recs \in Batches(TxPool, MaxTxBatch) :
          NoneOpen /\ CallUpsert(1, "direct", "i1", recs, MaxTxRuns)
    \/ \E recs \in Batches(TxPool, MaxTxBatch) :
          NoneOpen /\ CallBackfill(1, "direct", "i1", recs, MaxTxRuns)
    \/ \E t \in TxIds : ReadStep(t)
    \/ \E t \in TxIds : WriteStep(t)
    \/ \E t \in TxIds : CommitStep(t)
    \/ \E t \in TxIds : StorageFault(t)
    \/ \E t \in TxIds : RollbackFault(t)

SpecTx == Init /\ [][NextTx]_vars

NextConc ==
    \/ \E t \in TxIds, recs \in Batches(ConcPool, MaxConcBatch) : CallUpsert(t, "concurrent", "i1", recs, MaxConcRuns)
    \/ \E t \in TxIds, recs \in Batches(ConcPool, MaxConcBatch) : CallBackfill(t, "concurrent", "i1", recs, MaxConcRuns)
    \/ \E t \in TxIds : ReadStep(t)
    \/ \E t \in TxIds : WriteStep(t)
    \/ \E t \in TxIds : DeadlockStep(t)
    \/ \E t \in TxIds : CommitStep(t)

SpecConc == Init /\ [][NextConc]_vars

\* candidates of the exploration across indicators: one key, two values
IndPool == {Rec(US, 0, Date2020), Rec(US, 3, Date2020)}

\* two upsert transactions at a time, for the same or for different indicators
\* (with a single key no two transactions can wait for each other)
NextInd ==
    \/ \E t \in TxIds, ind \in IndicatorIds, recs \in Batches(IndPool, MaxConcBatch) :
          CallUpsert(t, "direct", ind, recs, MaxConcRuns)
    \/ \E t \in TxIds : ReadStep(t)
    \/ \E t \in TxIds : WriteStep(t)
    \/ \E t \in TxIds : CommitStep(t)

SpecInd == Init /\ [][NextInd]_vars

\* backfills started and cancelled through the admin routes
NextBackfill ==
    \/ \E l \in TxIds : PostBackfill(l)
    \/ CancelBackfill
    \/ \E l \in TxIds, recs \in Batches(HistoryPool, MaxBackfillBatch) :
          LoopFetchReturn(l, recs)
    \/ \E l \in TxIds : LoopFetchThrow(l)
    \/ \E l \in TxIds : LoopWake(l)
    \/ \E t \in TxIds : ReadStep(t)
    \/ \E t \in TxIds : WriteStep(t)
    \/ \E t \in TxIds : DeadlockStep(t)
    \/ \E t \in TxIds : CommitStep(t)
    \/ \E t \in TxIds : StorageFault(t)

SpecBackfill == Init /\ [][NextBackfill]_vars

\* admin backfills whose history fetch goes page by page
NextPages ==
    \/ \E l \in TxIds : PostBackfill(l)
    \/ \E l \in TxIds, pages \in 0..MaxPages, body \in PageBodies :
          PageReturn(l, pages, body)
    \/ \E l \in TxIds : PageThrow(l)
    \/ \E l \in TxIds : LoopWake(l)
    \/ \E t \in TxIds : ReadStep(t)
    \/ \E t \in TxIds : WriteStep(t)
    \/ \E t \in TxIds : CommitStep(t)

SpecPages == Init /\ [][NextPages]_vars

\* what the fetch of the cached exploration may deliver
CachePool == {Rec(US, 0, Date2020), Rec(US, 3, Date2020)}

\* scheduled jobs next to GET requests that read through the cache
NextCache ==
    \/ clock < MaxCacheJobs /\ StartScheduled("interest", "i1")
    \/ \E recs \in Batches(CachePool, MaxCacheBatch) : FetchReturn(recs)
    \/ FetchThrow
    \/ \E t \in TxIds : ReadStep(t)
    \/ \E t \in TxIds : WriteStep(t)
    \/ \E t \in TxIds : CommitStep(t)
    \/ LogResult
    \/ LogResultFault
    \/ CatchLog
    \/ \E r \in ReadIds : GetLatest(r, "interest")
    \/ \E r \in ReadIds : GetLastUpdated(r)
    \/ \E r \in ReadIds : GetCompareCountries(r)
    \/ \E r \in ReadIds : Respond(r)
    \/ \E key \in DOMAIN cache : Expire(key)

SpecCache == Init /\ [][NextCache]_vars

\* runs one at a time, with countries and indicators the reference tables lack
NextRef ==
    \/ \E ind \in {"i1", UnknownIndicator}, recs \in Batches(RefPool, MaxBatch) :
          NoneOpen /\ CallUpsert(1, "direct", ind, recs, MaxRuns)
    \/ \E recs \in Batches(RefPool, MaxBatch) :
          NoneOpen /\ CallBackfill(1, "direct", "i1", recs, MaxRuns)
    \/ \E t \in TxIds : ReadStep(t)
    \/ \E t \in TxIds : WriteStep(t)
    \/ \E t \in TxIds : CommitStep(t)

SpecRef == Init /\ [][NextRef]_vars

\* a version-1 row of US as an earlier run of the indicator committed it
SeedRow(ind, n) ==
    [id |-> <<0, n>>, country_code |-> US, indicator_id |-> ind,
     effective_date |-> Date2020, value |-> 1, fetched_at |-> 0, data_version |-> 1]

\* candidates of the reordering exploration: two values of one key and a second key
OrderPool == {Rec(US, 0, Date2020), Rec(US, 3, Date2020), Rec(DE, 0, Date2020)}

\* the table is empty, or holds the same history for both indicators
InitOrder ==
    /\ rows \in {{}, {SeedRow("i1", 1), SeedRow("i2", 2)}}
    /\ tx = [t \in TxIds |-> IdleTx]
    /\ clock = 0
    /\ runs = <<>>
    /\ job = IdleJob
    /\ ledger = <<>>
    /\ lastJob = NoJob
    /\ backfillStatus = InitialStatus
    /\ loops = [l \in TxIds |-> IdleLoop]
    /\ cache = EmptyCache
    /\ reads = [r \in ReadIds |-> IdleRead]
    /\ served = NoResponse

\* upserts one at a time for two indicators: a run for one indicator neither reads
\* nor writes a row of the other, so two runs for different indicators over equal
\* histories are two runs against the same initial store
NextOrder ==
    \/ \E ind \in IndicatorIds, recs \in Batches(OrderPool, MaxBatch) :
          NoneOpen /\ CallUpsert(1, "direct", ind, recs, MaxRuns)
    \/ \E t \in TxIds : ReadStep(t)
    \/ \E t \in TxIds : WriteStep(t)
    \/ \E t \in TxIds : CommitStep(t)

SpecOrder == InitOrder /\ [][NextOrder]_vars

\* ingestion jobs, one at a time
NextJob ==
    \/ StartScheduled("exchange", "i1")
    \/ StartRunAll
    \/ \E recs \in Batches(JobPool, MaxFetch) : FetchReturn(recs)
    \/ FetchThrow
    \/ \E t \in TxIds : ReadStep(t)
    \/ \E t \in TxIds : WriteStep(t)
    \/ \E t \in TxIds : CommitStep(t)
    \/ \E t \in TxIds : StorageFault(t)
    \/ LogResult
    \/ LogResultFault
    \/ CatchLog
    \/ CatchLogFault

SpecJob == Init /\ [][NextJob]_vars

\* World Bank jobs, one at a time
NextFetch ==
    \/ StartScheduled("interest", "i1")
    \/ \E response \in Responses : FetchWorldBank(response)
    \/ \E t \in TxIds : ReadStep(t)
    \/ \E t \in TxIds : WriteStep(t)
    \/ \E t \in TxIds : CommitStep(t)
    \/ LogResult

SpecFetch == Init /\ [][NextFetch]_vars

----------------------------------------------------------------------------
(* Properties of the versioned store, checked under Spec *)

KeysOf(S) == {<<r.country_code, r.indicator_id, r.effective_date>> : r \in S}

RowsAt(S, k) == RowsOfKey(S, k[1], k[2], k[3])

\* C1: after any sequence of upsert and backfill runs executed one at a time, every
\* key that has a stored row has exactly the data versions 1..N, N >= 1, each once.
DenseVersionHistory ==
    \A k \in KeysOf(rows) :
        /\ Cardinality(RowsAt(rows, k)) >= 1
        /\ {r.data_version : r \in RowsAt(rows, k)} = 1..Cardinality(RowsAt(rows, k))

\* a key with three versions next to a second key
DenseVersionHistoryWitness ==
    /\ Cardinality(KeysOf(rows)) >= 2
    /\ \E k \in KeysOf(rows) : Cardinality(RowsAt(rows, k)) >= 3

\* C2: a storage error while upsertIndicatorValues processes its Nth record rolls the
\* transaction back and reaches the caller as an exception; the table is then what
\* it was before the run, and no row written for records 1..N-1 is in it.
RollbackRestoresTable ==
    \A n \in 1..Len(runs) :
        (runs[n].kind = "upsert" /\ runs[n].cause = "storage")
            => /\ runs[n].outcome = "throw"
               /\ runs[n].after = runs[n].before
               /\ runs[n].after \cap runs[n].pendingAtEnd = {}

\* the error hit the second record after the first one had written a row
RollbackRestoresTableWitness ==
    \E n \in 1..Len(runs) :
        /\ runs[n].kind = "upsert"
        /\ runs[n].cause = "storage"
        /\ runs[n].failedAt >= 2
        /\ runs[n].pendingAtEnd # {}

\* two upsert runs in a row, both returned, with the same indicator and batch
IdenticalRerun ==
    /\ Len(runs) = 2
    /\ runs[1].kind = "upsert" /\ runs[2].kind = "upsert"
    /\ runs[1].outcome = "return" /\ runs[2].outcome = "return"
    /\ runs[1].ind = runs[2].ind
    /\ runs[1].recs = runs[2].recs

SameVersionCounts(S, T) ==
    \A k \in KeysOf(S) \cup KeysOf(T) :
        Cardinality(RowsAt(S, k)) = Cardinality(RowsAt(T, k))

\* no two records of the batch that share a key differ by the tolerance or more
NoConflictingDuplicates(recs) ==
    \A a, b \in 1..Len(recs) :
        (recs[a].countryCode = recs[b].countryCode
            /\ recs[a].effectiveDate = recs[b].effectiveDate)
            => Abs(recs[a].value - recs[b].value) < Tolerance

\* C3 as stated: the second of two identical upsert runs reports inserted = 0 and
\* leaves the number of stored versions of every key as the first run left it.
RerunIsNoOp ==
    IdenticalRerun
        => /\ runs[2].res.inserted = 0
           /\ SameVersionCounts(runs[1].after, runs[2].after)

\* C3 amended: the second of two identical upsert runs reports inserted = 0; it
\* leaves the number of stored versions of every key unchanged provided no two
\* records of the batch with the same key differ by the tolerance or more.
RerunIsNoOpWithoutConflictingDuplicates ==
    IdenticalRerun
        => /\ runs[2].res.inserted = 0
           /\ NoConflictingDuplicates(runs[2].recs)
                => SameVersionCounts(runs[1].after, runs[2].after)

\* a batch of two different records of one key, within tolerance, applied twice
RerunIsNoOpWitness ==
    /\ IdenticalRerun
    /\ NoConflictingDuplicates(runs[2].recs)
    /\ Len(runs[2].recs) = 2
    /\ runs[2].recs[1] # runs[2].recs[2]
    /\ runs[1].res.inserted = 1
    /\ runs[2].res.skipped = 2

\* the record loop of an upsert has just compared a candidate with the latest row
Compared(t) ==
    /\ tx[t].pc = "read"
    /\ tx[t].kind = "upsert"
    /\ tx'[t].kind = "upsert"
    /\ tx'[t].last.existing # NoRow
    /\ tx'[t].last.record = tx[t].recs[tx[t].i]

Difference(t) == Abs(tx'[t].last.existing.value - tx'[t].last.record.value)

Skipped(t) ==
    /\ tx'[t].res.skipped = tx[t].res.skipped + 1
    /\ tx'[t].pending = tx[t].pending
    /\ tx'[t].pc # "write"

NewVersionIssued(t) ==
    /\ tx'[t].pc = "write"
    /\ tx'[t].res.skipped = tx[t].res.skipped
    /\ tx'[t].planned.data_version = tx'[t].last.existing.data_version + 1
    /\ tx'[t].planned.value = tx'[t].last.record.value

\* the INSERT issued for a record puts its row among the transaction's writes
InsertWrites(t) ==
    (tx[t].pc = "write" /\ tx'[t].pc \in {"read", "commit"})
        => tx'[t].pending = tx[t].pending \cup {tx[t].planned}

AppendOnly == [][rows \subseteq rows']_vars

\* a row of an earlier run next to a later version of the same key
AppendOnlyWitness ==
    \E r, q \in rows :
        SameKey(r, q) /\ r.fetched_at < q.fetched_at /\ r.data_version < q.data_version

\* C8: a backfill never adds a row to, nor changes a row of, a key that already has
\* a stored row, whatever value its candidate carries.
BackfillLeavesPopulatedKeys ==
    \A n \in 1..Len(runs) :
        runs[n].kind = "backfill"
            => \A k \in KeysOf(runs[n].before) :
                  RowsAt(runs[n].after, k) = RowsAt(runs[n].before, k)

\* a committed backfill whose candidate differs from the value an upsert stored
BackfillLeavesPopulatedKeysWitness ==
    /\ Len(runs) = 2
    /\ runs[1].kind = "upsert" /\ runs[1].outcome = "return"
    /\ runs[2].kind = "backfill" /\ runs[2].outcome = "return"
    /\ \E n \in 1..Len(runs[2].recs) :
          LET rec == runs[2].recs[n]
              old == Latest(runs[2].before, rec.countryCode, runs[2].ind, rec.effectiveDate)
          IN  old # NoRow /\ Abs(old.value - rec.value) > Tolerance

----------------------------------------------------------------------------
(* The unique constraint under interleaving, checked under SpecConc *)

\* C9: no two committed rows share (country_code, indicator_id, effective_date,
\* data_version), also when transactions writing the same key are interleaved.
UniqueVersion ==
    \A r, q \in rows : (SameKey(r, q) /\ r.data_version = q.data_version) => r = q

\* a transaction lost the race for a version another one had committed
UniqueVersionWitness ==
    /\ rows # {}
    /\ \E t \in TxIds : tx[t].last.action \in {"unique", "conflict_nothing"}

----------------------------------------------------------------------------
(* Jobs and their ledger rows, checked under SpecJob *)

LedgerRowsOf(startedAt) == {n \in 1..Len(ledger) : ledger[n].started_at = startedAt}

Finished == lastJob.pc \in {"returned", "escaped"}

\* C5: every job invocation appends exactly one ledger row.
OneLedgerRowPerInvocation ==
    Finished => Cardinality(LedgerRowsOf(lastJob.startedAt)) = 1

\* C6: the ledger row says success for an upsert that returned without errors,
\* partial for one that returned with errors, failure for a fetch or an upsert that
\* threw; a failure row has zero counts and the abort reason as its message.
LedgerStatusMatchesOutcome ==
    Finished =>
        \A n \in LedgerRowsOf(lastJob.startedAt) :
            /\ ledger[n].status = "success"
                  <=> (lastJob.upsert = "return" /\ Len(lastJob.result.errors) = 0)
            /\ ledger[n].status = "partial"
                  <=> (lastJob.upsert = "return" /\ Len(lastJob.result.errors) > 0)
            /\ ledger[n].status = "failure"
                  <=> (lastJob.fetched = "throw" \/ lastJob.upsert = "throw")
            /\ ledger[n].status = "failure"
                  => /\ ledger[n].items_inserted = 0
                     /\ ledger[n].items_updated = 0
                     /\ ledger[n].error_message \in {<<ErrMsg("fetch")>>, <<ErrMsg("storage")>>}

StructurallyInvalid(record) ==
    \/ ~CountryCodeShape(record.countryCode)
    \/ ~IsFinite(record.value)
    \/ ~DateShape(record.effectiveDate)

InvalidAt(recs) == {n \in 1..Len(recs) : StructurallyInvalid(recs[n])}

\* C10: a structurally invalid record does not abort its batch: it adds one message
\* to the error list and writes no row, the valid records of the batch are processed
\* and committed, and the job logs the run as partial.  (A storage fault, of the
\* table or of the ledger, is a different matter: the job then logs a failure.)
InvalidRecordDoesNotAbort ==
    (Finished /\ lastJob.fetched = "return") =>
        LET recs == lastJob.records
            mine == {r \in rows : r.id[1] = lastJob.startedAt}
        IN  /\ lastJob.upsert = "throw" => lastJob.err = "storage"
            /\ lastJob.upsert = "return" =>
                  /\ Len(lastJob.result.errors) = Cardinality(InvalidAt(recs))
                  /\ \A r \in mine : r.id[2] \notin InvalidAt(recs)
                  /\ lastJob.result.inserted + lastJob.result.updated
                        + lastJob.result.skipped
                        = Len(recs) - Cardinality(InvalidAt(recs))
                  /\ Cardinality(mine)
                        = lastJob.result.inserted + lastJob.result.updated
                  /\ (InvalidAt(recs) # {} /\ lastJob.logFaults = 0)
                        => \E n \in LedgerRowsOf(lastJob.startedAt) :
                              /\ ledger[n].status = "partial"
                              /\ Len(ledger[n].error_message)
                                    = Min(5, Cardinality(InvalidAt(recs)))

\* a batch of an invalid and a valid record, committed and logged as partial
InvalidRecordDoesNotAbortWitness ==
    /\ Finished
    /\ lastJob.upsert = "return"
    /\ lastJob.logFaults = 0
    /\ Cardinality(InvalidAt(lastJob.records)) = 1
    /\ lastJob.result.inserted = 1
    /\ \E r \in rows : r.id[1] = lastJob.startedAt
    /\ \E n \in LedgerRowsOf(lastJob.startedAt) : ledger[n].status = "partial"

----------------------------------------------------------------------------
(* Reference tables, checked under SpecRef *)

\* the record loop has just dealt with a structurally valid candidate whose country
\* code the countries table does not hold
UnregisteredCountry(t) ==
    /\ tx[t].pc = "read"
    /\ tx'[t].pc # "idle"
    /\ ~StructurallyInvalid(tx[t].recs[tx[t].i])
    /\ tx[t].recs[tx[t].i].countryCode \notin Countries

\* C11: a structurally valid candidate for a country absent from the countries table
\* adds one to skipped, nothing to the error list and no row, in an upsert and in a
\* backfill, whatever its value and whatever is stored.
UnregisteredCountryIsSkipped ==
    [][\A t \in TxIds :
          /\ (tx[t].pc = "read" /\ ~StructurallyInvalid(tx[t].recs[tx[t].i])
                 /\ tx[t].recs[tx[t].i].countryCode \notin Countries)
                => /\ tx'[t].pc \in {"read", "commit"}
                   /\ tx'[t].i = tx[t].i + 1
          /\ UnregisteredCountry(t)
                => /\ tx'[t].res = [tx[t].res EXCEPT !.skipped = @ + 1]
                   /\ tx'[t].pending = tx[t].pending
                   /\ rows' = rows]_vars

\* an upsert skipped such a candidate next to a stored row and committed
UnregisteredCountryIsSkippedWitness ==
    /\ Len(runs) = 2
    /\ runs[2].kind = "upsert" /\ runs[2].outcome = "return"
    /\ runs[2].before # {}
    /\ \E n \in 1..Len(runs[2].recs) : runs[2].recs[n].countryCode = ZZ
    /\ runs[2].res.skipped >= 1
    /\ runs[2].res.updated = 1
    /\ \A r \in runs[2].after : r.country_code # ZZ

\* C12: an upsert for an indicator id the indicators table does not hold skips its
\* records and returns: no exception reaches the caller.
UnknownIndicatorIsSkipped ==
    \A n \in 1..Len(runs) :
        (runs[n].kind = "upsert" /\ runs[n].ind \notin IndicatorIds)
            => runs[n].outcome = "return"

----------------------------------------------------------------------------
(* Several candidates for one key in a batch, checked under Spec *)

\* a candidate the record loop carries as far as the comparison with the stored value
Candidate(record) ==
    /\ ~StructurallyInvalid(record)
    /\ record.countryCode \in Countries

SameCandidateKey(a, b) ==
    a.countryCode = b.countryCode /\ a.effectiveDate = b.effectiveDate

\* position n holds the last of several candidates of the batch for one key
LastOfSeveral(recs, n) ==
    /\ Candidate(recs[n])
    /\ \E m \in 1..(n - 1) : Candidate(recs[m]) /\ SameCandidateKey(recs[m], recs[n])
    /\ \A m \in (n + 1)..Len(recs) :
          ~(Candidate(recs[m]) /\ SameCandidateKey(recs[m], recs[n]))

\* the value of the row of the key that carries the highest data version
StoredValue(S, record, ind) ==
    LET K == {r \in S : /\ r.country_code = record.countryCode
                         /\ r.indicator_id = ind
                         /\ r.effective_date = record.effectiveDate}
    IN  IF K = {} THEN NaN
        ELSE (CHOOSE r \in K : \A q \in K : q.data_version <= r.data_version).value

\* C13 as stated: after a batch with several candidates for one key commits, the
\* highest version stored for the key carries the value of the last of them.
LastCandidateIsStored ==
    \A n \in 1..Len(runs) :
        (runs[n].kind = "upsert" /\ runs[n].outcome = "return")
            => \A m \in 1..Len(runs[n].recs) :
                  LastOfSeveral(runs[n].recs, m)
                      => StoredValue(runs[n].after, runs[n].recs[m], runs[n].ind)
                            = runs[n].recs[m].value

\* C13 amended: after a batch with several candidates for one key commits, the
\* highest version stored for the key carries a value less than the tolerance away
\* from the value of the last valid candidate; it is that candidate's own value
\* when its INSERT was issued.
LastCandidateIsStoredWithinTolerance ==
    \A n \in 1..Len(runs) :
        (runs[n].kind = "upsert" /\ runs[n].outcome = "return")
            => \A m \in 1..Len(runs[n].recs) :
                  LastOfSeveral(runs[n].recs, m)
                      => LET stored == StoredValue(runs[n].after, runs[n].recs[m],
                                                   runs[n].ind)
                         IN  /\ stored # NaN
                             /\ Abs(stored - runs[n].recs[m].value) < Tolerance
                             /\ (\E r \in runs[n].after \ runs[n].before :
                                    r.id[2] = m)
                                   => stored = runs[n].recs[m].value

\* a batch whose second candidate for the key replaced the first, and one whose
\* second candidate was within the tolerance of the first
LastCandidateIsStoredWitness ==
    /\ Len(runs) = 2
    /\ runs[1].outcome = "return" /\ runs[1].kind = "upsert"
    /\ runs[2].outcome = "return" /\ runs[2].kind = "upsert"
    /\ Len(runs[1].recs) = 2 /\ Len(runs[2].recs) = 2
    /\ LastOfSeveral(runs[1].recs, 2) /\ runs[1].res.updated = 1
    /\ runs[1].res.inserted = 1
    /\ LastOfSeveral(runs[2].recs, 2) /\ runs[2].recs[1] # runs[2].recs[2]
    /\ runs[2].res.skipped = 1 /\ runs[2].res.updated = 1

----------------------------------------------------------------------------
(* The order of the records of a batch, checked under SpecOrder *)

\* the rows of an indicator without what tells two runs apart (id, fetched_at)
HistoryOf(S, ind) ==
    {[country_code |-> r.country_code, effective_date |-> r.effective_date,
      value |-> r.value, data_version |-> r.data_version] :
        r \in {q \in S : q.indicator_id = ind}}

Reordered(a, b) ==
    /\ Len(a) = Len(b)
    /\ a # b
    /\ \E f \in Permutations(1..Len(a)) : \A n \in 1..Len(a) : b[n] = a[f[n]]

\* two returned upsert runs over equal histories whose batches hold the same records
\* in a different order
ReorderedRuns ==
    /\ Len(runs) = 2
    /\ runs[1].kind = "upsert" /\ runs[1].outcome = "return"
    /\ runs[2].kind = "upsert" /\ runs[2].outcome = "return"
    /\ runs[1].ind # runs[2].ind
    /\ HistoryOf(runs[1].before, runs[1].ind) = HistoryOf(runs[2].before, runs[2].ind)
    /\ Reordered(runs[1].recs, runs[2].recs)

SameOutcome ==
    /\ HistoryOf(runs[1].after, runs[1].ind) = HistoryOf(runs[2].after, runs[2].ind)
    /\ runs[1].res.inserted = runs[2].res.inserted
    /\ runs[1].res.updated = runs[2].res.updated
    /\ runs[1].res.skipped = runs[2].res.skipped

DistinctKeys(recs) ==
    \A a, b \in 1..Len(recs) : (a # b) => ~SameCandidateKey(recs[a], recs[b])

\* C14 as stated: the records of a batch in a different order, against the same
\* initial store, give the same committed rows and the same counts.
OrderIndependent == ReorderedRuns => SameOutcome

\* C14 amended: the records of a batch in which no two records share a key give, in
\* a different order against the same initial store, the same committed rows and the
\* same counts.
OrderIndependentForDistinctKeys ==
    (ReorderedRuns /\ DistinctKeys(runs[1].recs)) => SameOutcome

\* two orders of a batch that adds a version to a stored key and a row to a new key
OrderIndependentWitness ==
    /\ ReorderedRuns
    /\ DistinctKeys(runs[1].recs)
    /\ runs[1].before # {}
    /\ runs[1].res.updated = 1 /\ runs[1].res.inserted = 1
    /\ runs[2].res.updated = 1 /\ runs[2].res.inserted = 1

----------------------------------------------------------------------------
(* The batches of a backfill, checked under Spec *)

\* C15: a storage error while a backfill writes batch k leaves the rows written by
\* the batches 1..k-1 of the same call stored.
EarlierBatchesStayStored ==
    \A n \in 1..Len(runs) :
        (runs[n].kind = "backfill" /\ runs[n].cause = "storage")
            => \A r \in runs[n].pendingAtEnd :
                  BatchOf(r.id[2]) < BatchOf(runs[n].failedAt) => r \in runs[n].after

\* two backfill runs in a row with the same indicator and the same record list
BackfillRerun ==
    /\ Len(runs) = 2
    /\ runs[1].kind = "backfill" /\ runs[2].kind = "backfill"
    /\ runs[1].ind = runs[2].ind
    /\ runs[1].recs = runs[2].recs

\* a record the backfill loop carries as far as the lookup of its key
BackfillCandidate(record) ==
    CountryCodeShape(record.countryCode) /\ record.countryCode \in Countries

\* what one uninterrupted backfill of recs leaves of an indicator: the history it
\* found, and a version-1 row of the first candidate of every key that had no row
SingleBackfill(S, ind, recs) ==
    HistoryOf(S, ind) \cup
    {[country_code |-> recs[m].countryCode, effective_date |-> recs[m].effectiveDate,
      value |-> recs[m].value, data_version |-> 1] :
        m \in {k \in 1..Len(recs) :
                  /\ BackfillCandidate(recs[k])
                  /\ RowsAt(S, <<recs[k].countryCode, ind, recs[k].effectiveDate>>) = {}
                  /\ \A j \in 1..(k - 1) :
                        ~(BackfillCandidate(recs[j]) /\ SameCandidateKey(recs[j], recs[k]))}}

\* C17: a backfill re-run with the same record list is safe: after a committed first
\* run it reports inserted = 0 and leaves the table as it is; an aborted run leaves
\* the table as it found it, and the run that follows it ends in the state of a
\* single uninterrupted run.
BackfillRerunIsSafe ==
    /\ \A n \in 1..Len(runs) :
          (runs[n].kind = "backfill" /\ runs[n].outcome = "throw")
              => runs[n].after = runs[n].before
    /\ (BackfillRerun /\ runs[1].outcome = "return" /\ runs[2].outcome = "return")
          => /\ runs[2].res.inserted = 0
             /\ runs[2].after = runs[2].before
    /\ (BackfillRerun /\ runs[1].outcome = "throw" /\ runs[2].outcome = "return")
          => HistoryOf(runs[2].after, runs[2].ind)
                = SingleBackfill(runs[1].before, runs[1].ind, runs[1].recs)

\* a backfill that inserted two keys, run again with the same records
BackfillRerunIsSafeWitness ==
    /\ BackfillRerun
    /\ runs[1].outcome = "return" /\ runs[2].outcome = "return"
    /\ runs[1].res.inserted = 2
    /\ runs[2].res.skipped = 2
    /\ Cardinality(rows) = 2

\* a backfill aborted after its first INSERT, run again to completion
AbortedBackfillRerun ==
    /\ BackfillRerun
    /\ runs[1].outcome = "throw" /\ runs[1].pendingAtEnd # {}
    /\ runs[2].outcome = "return" /\ runs[2].res.inserted = 2

----------------------------------------------------------------------------
(* The read API over the versioned rows, checked under Spec *)

\* no row of the same key carries a higher data version
HighestVersion(S, r) == \A q \in S : SameKey(q, r) => q.data_version <= r.data_version

\* C18: every read of indicator values returns, for each key, only the row with the
\* highest data version.
ReadsReturnHighestVersion ==
    \A ind \in IndicatorIds :
        /\ \A r \in LatestQuery(rows, ind) : HighestVersion(rows, r)
        /\ \A year \in Years : \A r \in YearQuery(rows, ind, year) :
              HighestVersion(rows, r)
        /\ \A c \in Countries, fromYear \in Years, toYear \in Years :
              \A r \in HistoryQuery(rows, c, ind, fromYear, toYear) :
                  HighestVersion(rows, r)

\* the part of C18 that the code keeps: the latest and the year reads return only
\* rows of the highest data version
LatestAndYearReadsReturnHighestVersion ==
    \A ind \in IndicatorIds :
        /\ \A r \in LatestQuery(rows, ind) : HighestVersion(rows, r)
        /\ \A year \in Years : \A r \in YearQuery(rows, ind, year) :
              HighestVersion(rows, r)

----------------------------------------------------------------------------
(* Runs for different indicators side by side, checked under SpecInd *)

\* the rows a statement of transaction t can select: those of its own indicator
OwnView(t) == {r \in rows \cup tx[t].pending : r.indicator_id = tx[t].ind}

\* transaction t is open next to a transaction for another indicator and does not
\* take this step
BesideOtherIndicator(t) ==
    /\ tx[t].pc # "idle"
    /\ tx'[t] = tx[t]
    /\ \A u \in TxIds \ {t} : tx[u].pc # "idle" => tx[u].ind # tx[t].ind

\* a run of the same indicator has been, or is, under way next to transaction t
SameIndicatorRun(t) ==
    \/ \E u \in TxIds \ {t} : tx[u].pc # "idle" /\ tx[u].ind = tx[t].ind
    \/ \E n \in 1..Len(runs) : runs[n].ind = tx[t].ind /\ runs[n].stamp > tx[t].stamp
    \/ \E n \in 1..Len(runs) :
          /\ runs[n].ind = tx[t].ind
          /\ runs[n].stamp < tx[t].stamp
          /\ runs[n].after \ tx[t].before # {}

\* C19: an upsert transaction for one indicator is not affected by a transaction for
\* another: no step of the other changes the rows it can select or makes its INSERT
\* wait, it never fails on the other's account, and it commits exactly the rows it
\* wrote; its counts and rows are therefore those of the run on its own.
DifferentIndicatorsDoNotInterfere ==
    [][\A t \in TxIds :
          /\ BesideOtherIndicator(t)
                => /\ OwnView(t)' = OwnView(t)
                   /\ tx[t].pc = "write" => (~Blocked(t) /\ ~Blocked(t)')
          /\ (tx[t].pc \in {"read", "write"} /\ tx'[t].pc = "idle")
                => SameIndicatorRun(t)
          /\ (tx[t].pc = "commit" /\ tx'[t].pc = "idle")
                => /\ rows' = rows \cup tx[t].pending
                   /\ Cardinality(tx[t].pending)
                         = tx[t].res.inserted + tx[t].res.updated]_vars

\* both transactions are open, for different indicators, and each has written
\* version 1 of the same country and date
DifferentIndicatorsWitness ==
    /\ tx[1].pc # "idle" /\ tx[2].pc # "idle"
    /\ tx[1].ind # tx[2].ind
    /\ \E r \in tx[1].pending, q \in tx[2].pending :
          SameCountryAndDate(r, q) /\ r.data_version = q.data_version

----------------------------------------------------------------------------
(* Cancellation of a backfill, checked under SpecBackfill *)

\* the loader of an admin backfill stands before the first record of a batch other
\* than the first
AtBatchBoundary(t) ==
    /\ tx[t].caller = "admin"
    /\ tx[t].pc = "read"
    /\ tx[t].i > 1
    /\ BatchOf(tx[t].i) # BatchOf(tx[t].i - 1)

\* C16: once cancellation has been requested, the loader starts no further batch of
\* the indicator it is writing.
CancellationStopsAtBatchBoundary ==
    [][\A t \in TxIds :
          (AtBatchBoundary(t) /\ ~backfillStatus.running)
              => (tx'[t].i = tx[t].i \/ tx'[t].pc = "idle")]_vars

----------------------------------------------------------------------------
(* The reduction of a World Bank response, checked under SpecFetch *)

\* an observation that yields a candidate: a value, a country with an ISO2 code and
\* a date that spells a year
Usable(point) ==
    /\ point.value # <<>>
    /\ point.countryiso3code \in DOMAIN iso3Map
    /\ ParseInt(point.date) # NaN

\* record is the candidate of the observation point
CandidateOf(record, point) ==
    /\ Usable(point)
    /\ record.countryCode = iso3Map[point.countryiso3code]
    /\ record.value = point.value[1]
    /\ record.effectiveDate = EndOfYear(ParseInt(point.date))

\* C20: the latest fetch returns at most one candidate per country, one for every
\* country that has a usable observation, and it is the candidate of an observation
\* of the greatest year among the usable observations of that country.
LatestPerCountry ==
    job.fetched = "return" =>
        LET data == job.response.data
            recs == job.records
        IN  /\ \A a, b \in 1..Len(recs) :
                  recs[a].countryCode = recs[b].countryCode => a = b
            /\ \A a \in 1..Len(recs) :
                  \E n \in 1..Len(data) :
                      /\ CandidateOf(recs[a], data[n])
                      /\ \A m \in 1..Len(data) :
                            (Usable(data[m])
                                /\ data[m].countryiso3code = data[n].countryiso3code)
                                => ParseInt(data[m].date) <= ParseInt(data[n].date)
            /\ \A n \in 1..Len(data) :
                  Usable(data[n])
                      => \E a \in 1..Len(recs) :
                            recs[a].countryCode = iso3Map[data[n].countryiso3code]

\* a response that lists a later year of a country before an earlier one, next to
\* an observation without a value: the later year is the one returned
LatestPerCountryWitness ==
    /\ job.fetched = "return"
    /\ Len(job.response.data) = 3
    /\ job.response.data[1].countryiso3code = "USA"
    /\ job.response.data[2].countryiso3code = "USA"
    /\ Usable(job.response.data[1]) /\ Usable(job.response.data[2])
    /\ ParseInt(job.response.data[1].date) > ParseInt(job.response.data[2].date)
    /\ job.response.data[3].value = <<>>
    /\ Len(job.records) = 1
    /\ job.records[1].effectiveDate = EndOfYear(ParseInt(job.response.data[1].date))

----------------------------------------------------------------------------
(* The counts of a run, checked under SpecRef *)

\* C24: an upsert call that returns accounts for every record supplied, as inserted,
\* updated, skipped or rejected, and its transaction added inserted + updated rows.
EveryRecordCounted ==
    \A n \in 1..Len(runs) :
        (runs[n].kind = "upsert" /\ runs[n].outcome = "return")
            => /\ runs[n].res.inserted + runs[n].res.updated + runs[n].res.skipped
                     + Len(runs[n].res.errors) = Len(runs[n].recs)
               /\ runs[n].before \subseteq runs[n].after
               /\ Cardinality(runs[n].after \ runs[n].before)
                     = runs[n].res.inserted + runs[n].res.updated

\* a run that updated a stored key, and a run with a skipped and a rejected record
EveryRecordCountedWitness ==
    /\ Len(runs) = 2
    /\ runs[1].kind = "upsert" /\ runs[1].outcome = "return"
    /\ runs[2].kind = "upsert" /\ runs[2].outcome = "return"
    /\ runs[1].res.inserted = 1 /\ runs[1].res.updated = 1
    /\ runs[2].res.skipped = 1 /\ Len(runs[2].res.errors) = 1

----------------------------------------------------------------------------
(* The ledger against the table, and the loop of runAllIngestion, under SpecJob *)

\* the rows of indicator_values that the invocation started at startedAt committed
CommittedBy(startedAt) == {r \in rows : r.fetched_at = startedAt}

\* C26: an invocation with a 'failure' row in ingestion_logs committed no row of
\* indicator_values.
FailureRowMeansNothingCommitted ==
    Finished =>
        \A n \in LedgerRowsOf(lastJob.startedAt) :
            ledger[n].status = "failure" => CommittedBy(lastJob.startedAt) = {}

\* C27: when runAllIngestion is over, the last job it attempted is the last job of
\* its list.
RunAllAttemptsEveryJob ==
    (job.pc = "idle" /\ lastJob.kind = "runAll") => lastJob.idx = Len(JobList)

----------------------------------------------------------------------------
(* Consecutive versions, under Spec *)

\* C28: two stored rows of one key with consecutive data versions hold values that
\* differ by at least the tolerance.
ConsecutiveVersionsDiffer ==
    \A r \in rows : \A q \in rows :
        (SameKey(r, q) /\ q.data_version = r.data_version + 1)
            => Abs(q.value - r.value) >= Tolerance

\* a key with two versions: a run stored a value and skipped another one within
\* the tolerance of it, the next run stored a value past the tolerance
ConsecutiveVersionsDifferWitness ==
    /\ \E r \in rows : r.data_version = 2
    /\ Len(runs) = 2
    /\ runs[1].outcome = "return" /\ runs[2].outcome = "return"
    /\ Len(runs[1].recs) = 2
    /\ runs[1].recs[1].value # runs[1].recs[2].value
    /\ runs[1].res.inserted = 1 /\ runs[1].res.skipped = 1
    /\ runs[2].res.updated = 1

----------------------------------------------------------------------------
(* The number of admin backfill loops, under SpecBackfill *)

\* the invocations of runBackfillAsync that have not run to their end
ActiveLoops == {l \in TxIds : loops[l].pc # "idle"}

\* C25: at most one loop of runBackfillAsync is active.
AtMostOneBackfillLoop == Cardinality(ActiveLoops) <= 1

----------------------------------------------------------------------------
(* A reply of an unrecognized shape, under SpecFetch *)

\* C21: a job whose provider reply has an unrecognized shape ends with a fetch that
\* threw, and without a 'success' row in the ledger.
UnrecognizedResponseIsFatal ==
    (Finished /\ ~lastJob.response.recognized)
        => /\ lastJob.fetched = "throw"
           /\ \A n \in LedgerRowsOf(lastJob.startedAt) : ledger[n].status # "success"

----------------------------------------------------------------------------
(* The transaction frame of the loaders, under SpecTx *)

----------------------------------------------------------------------------
(* The pages of a history fetch, under SpecPages *)

Max(a, b) == IF a > b THEN a ELSE b

\* the usable observations of the bodies from position n on, in the order of the
\* pages
RECURSIVE UsableOfPages(_, _)
UsableOfPages(bodies, n) ==
    IF n > Len(bodies) THEN <<>>
    ELSE (IF bodies[n].hasData THEN SelectSeq(bodies[n].data, Usable) ELSE <<>>)
            \o UsableOfPages(bodies, n + 1)

\* recs holds the candidates of all usable observations of the bodies, in order
CandidatesOfPages(recs, bodies) ==
    LET points == UsableOfPages(bodies, 1)
    IN  /\ Len(recs) = Len(points)
        /\ \A k \in 1..Len(points) : CandidateOf(recs[k], points[k])

\* C23 (pages): a history fetch asks for the pages in increasing order, each once and
\* none past the count the provider reports (the first page is asked for to learn
\* the count); when it returns it has asked for all of them and hands the candidates
\* of all pages to the loader.
PagesRequestedOnceInOrder ==
    \A l \in TxIds :
        /\ \A k \in 1..Len(loops[l].requested) : loops[l].requested[k] = k
        /\ loops[l].pc = "fetch" =>
              Len(loops[l].requested) < Max(loops[l].totalPages, 1)
        /\ (loops[l].pc = "write" /\ tx[l].pc # "idle") =>
              /\ Len(loops[l].requested) = Max(loops[l].totalPages, 1)
              /\ Len(loops[l].received) = Len(loops[l].requested)
              /\ CandidatesOfPages(tx[l].recs, loops[l].received)

\* C23 (failure): when a page request fails the loop moves on without a loader
\* transaction for the indicator, and the table is as it was.
PageFailureWritesNothing ==
    [][\A l \in TxIds :
          (loops[l].pc = "fetch" /\ loops'[l].pc = "wait")
              => (tx'[l].pc = "idle" /\ rows' = rows /\ clock' = clock)]_vars

\* C23: both parts.
HistoryFetchPages == []PagesRequestedOnceInOrder /\ PageFailureWritesNothing

\* a fetch of two pages with a candidate on each has returned, after the fetch of
\* the indicator before it failed on its second page
HistoryFetchPagesWitness ==
    \E l \in TxIds :
        /\ loops[l].pc = "write"
        /\ loops[l].idx = 2
        /\ loops[l].requested = <<1, 2>>
        /\ Len(tx[l].recs) = 2
        /\ Len(backfillStatus.failed) = 1
        /\ rows = {}

----------------------------------------------------------------------------
(* The cache after a scheduled job, under SpecCache *)

\* the entry was set before the upsert of the job started at startedAt committed
StoredBeforeCommit(entry, startedAt) ==
    \/ entry.storedAt < startedAt
    \/ entry.storedAt = startedAt /\ ~entry.committed

\* the last job was a scheduled one and its ledger row says success or partial
ScheduledJobSucceeded ==
    /\ lastJob.kind = "scheduler"
    /\ lastJob.pc = "returned"
    /\ \E n \in LedgerRowsOf(lastJob.startedAt) : ledger[n].status \in {"success", "partial"}

\* C22: after a scheduled job has finished with success or partial, the cache holds
\* no entry under a key that includes 'indicators' or 'meta' which was set before
\* the upsert of that job committed.
NoEntryFromBeforeCommit ==
    ScheduledJobSucceeded =>
        \A key \in DOMAIN cache :
            (Includes(key, "indicators") \/ Includes(key, "meta"))
                => ~StoredBeforeCommit(cache[key], lastJob.startedAt)

\* the job that finished last wrote a row; the cache holds a compare entry from
\* before its commit and entries for the latest values and the meta data from after
NoEntryFromBeforeCommitWitness ==
    /\ ScheduledJobSucceeded
    /\ job.pc = "idle"
    /\ CommittedBy(lastJob.startedAt) # {}
    /\ CompareKey \in DOMAIN cache
    /\ StoredBeforeCommit(cache[CompareKey], lastJob.startedAt)
    /\ LatestKey("interest") \in DOMAIN cache
    /\ MetaKey \in DOMAIN cache

\* C29: once a scheduled job has committed and invalidated the cache, a response to
\* GET /api/indicators/latest for its indicator type carries the latest values as
\* of that commit.
ResponsesAreFreshAfterJob ==
    [][(/\ ScheduledJobSucceeded
        /\ job.pc = "idle"
        /\ served'.n # served.n
        /\ served'.key = LatestKey("interest"))
          => served'.data = LatestQuery(rows, TypeId("interest"))]_vars

====
